---- MODULE Spec2Model ----
(***************************************************************************)
(* Concurrent refresh scheduler and snapshot store of the geopolitical     *)
(* risk dashboard (src/main.py).                                           *)
(*                                                                         *)
(* The process holds four module-level dictionaries: _dashboard_state and  *)
(* one state per background source (_gdelt_state, _gtrends_state,          *)
(* _cloudflare_state).  Threads: one loop per source, the keepalive loop,  *)
(* the staggered starter, and one short-lived thread per stale request     *)
(* that runs refresh_dashboard_data.  CPython may switch threads between   *)
(* any two statements, so every write of a shared dictionary entry is a    *)
(* step of its own, and so is the test of 'updating' that precedes its     *)
(* assignment.  A source loop's test-and-set of its own 'fetching' flag is *)
(* one step (no other thread writes that flag), and a route handler is one *)
(* step (it writes nothing).  Work local to a thread (fetching, scoring,   *)
(* rendering) belongs to the step that ends with the next shared write.    *)
(*                                                                         *)
(* The scoring functions a rebuild calls (z_to_centred_score, the          *)
(* Polymarket signal, calculate_regional_composite) are operators; each is *)
(* evaluated under a specification of its own whose initial states         *)
(* enumerate its inputs and whose one action is the call.                  *)
(***************************************************************************)
EXTENDS Integers, FiniteSets, Sequences, TLC

\* ------------------------------------------------------------------ bounds
MaxWorkers == 1   \* request-spawned refresh threads alive at the same time
MaxItems   == 2   \* sub-items (terms, regions, countries) a fetch can retrieve
MaxTicks   == 1   \* clock advances
TickSecs   == 200 \* seconds per clock advance
StartTime  == 1000 \* time.time() when the module is imported (far from epoch 0)

\* ------------------------------------------------------- program constants
API_STALE_SECS       == 120
DASHBOARD_STALE_SECS == 180
KEEPALIVE_STALE_SECS == 120

Sources == {"cloudflare", "gdelt", "gtrends"}

\* Launch order of _staggered_start.
LaunchOrder == <<"cloudflare", "gdelt", "gtrends", "keepalive">>

\* Thread 0 is the keepalive loop; 1..MaxWorkers are request-spawned threads.
Keepalive  == 0
Workers    == 1..MaxWorkers
Refreshers == 0..MaxWorkers

\* _dashboard_state["html"]: None, the "Failed to load" page, or the page
\* rendered by cycle c (c >= 1).  _dashboard_state["scores"]: absent or the
\* record built by cycle c.  Cycle identities are reused once no thread and
\* no published field holds them any more.
NoHtml    == 0
ErrorPage == -1
NoScores  == 0

\* A source's "regional" payload: {} or a dict whose retrieved sub-item
\* count is n.
EmptyPayload == [present |-> FALSE, n |-> 0]
Payload(n)   == [present |-> TRUE, n |-> n]

\* Result of one fetch_*_regional() call.
NoRaw     == [kind |-> "none", n |-> 0]
RawRaised == [kind |-> "raise", n |-> 0]
RawEmpty  == [kind |-> "empty", n |-> 0]
RawData(n) == [kind |-> "data", n |-> n]

\* Sub-item counts a fetch of source s can come back with.  Only the Google
\* Trends loop reads the count (its acceptance heuristic); for GDELT and
\* Cloudflare the code tests the result for emptiness only, so the model tells
\* "no sub-item retrieved" (0) from "some retrieved" (1).
ItemCounts(s) == IF s = "gtrends" THEN 0..MaxItems ELSE 0..1
FetchOutcomes(s) == {RawRaised, RawEmpty} \cup {RawData(n) : n \in ItemCounts(s)}

VARIABLES
    dashboard_state,   \* _dashboard_state
    gdelt_state,       \* _gdelt_state
    gtrends_state,     \* _gtrends_state
    cloudflare_state,  \* _cloudflare_state
    threads_started,   \* _threads_started
    launched,          \* threads _staggered_start has started so far
    src_pc,            \* position of each source loop
    raw,               \* local fetch result of each source loop
    pc,                \* position of each thread that can run refresh_dashboard_data
    cyc,               \* the snapshot a refresher has built in its current cycle (0: none)
    now,               \* time.time()
    save_err,          \* per refresher: a store operation of its current cycle has failed
    calc               \* the call of a scoring function under evaluation

\* The variables of the refresh scheduler and snapshot store.
sched_vars == <<dashboard_state, gdelt_state, gtrends_state, cloudflare_state,
                threads_started, launched, src_pc, raw, pc, cyc, now, save_err>>

vars == <<dashboard_state, gdelt_state, gtrends_state, cloudflare_state,
          threads_started, launched, src_pc, raw, pc, cyc, now, save_err, calc>>

InitSourceState == [regional |-> EmptyPayload, last_updated |-> 0, fetching |-> FALSE]

\* No scoring function is being evaluated.
NoCalc == [fn |-> "none"]

\* The module-level state after import.
SchedulerInit ==
    /\ dashboard_state = [html |-> NoHtml, last_updated |-> 0, updating |-> FALSE,
                          scores |-> NoScores]
    /\ gdelt_state = InitSourceState
    /\ gtrends_state = InitSourceState
    /\ cloudflare_state = InitSourceState
    /\ threads_started = FALSE
    /\ launched = 0
    /\ src_pc = [s \in Sources |-> "off"]
    /\ raw = [s \in Sources |-> NoRaw]
    /\ pc = [w \in Refreshers |-> IF w = Keepalive THEN "off" ELSE "idle"]
    /\ cyc = [w \in Refreshers |-> 0]
    /\ now = StartTime
    /\ save_err = [w \in Refreshers |-> FALSE]

Init == SchedulerInit /\ calc = NoCalc

\* -------------------------------------------------------------------- clock
Tick ==
    /\ now < StartTime + MaxTicks * TickSecs
    /\ now' = now + TickSecs
    /\ UNCHANGED <<dashboard_state, gdelt_state, gtrends_state, cloudflare_state,
                   threads_started, launched, src_pc, raw, pc, cyc, save_err, calc>>

\* _time.time() - _dashboard_state["last_updated"] > limit
Stale(limit) == now - dashboard_state.last_updated > limit

\* ------------------------------------------------------------------ startup
\* Mutant of start_background_threads: the guard is not tested, every call
\* starts the staggered launch over.
start_background_threads_unguarded ==
    /\ threads_started' = TRUE
    /\ launched' = 0
    /\ UNCHANGED <<dashboard_state, gdelt_state, gtrends_state, cloudflare_state,
                   src_pc, raw, pc, cyc, now, save_err, calc>>

start_background_threads ==
    /\ IF threads_started
         THEN UNCHANGED threads_started
         ELSE threads_started' = TRUE
    /\ UNCHANGED <<dashboard_state, gdelt_state, gtrends_state, cloudflare_state,
                   launched, src_pc, raw, pc, cyc, now, save_err, calc>>

staggered_start ==
    /\ threads_started
    /\ launched < Len(LaunchOrder)
    /\ launched' = launched + 1
    /\ LET t == LaunchOrder[launched + 1] IN
         IF t = "keepalive"
           THEN /\ pc' = [pc EXCEPT ![Keepalive] = "sleep"]
                /\ UNCHANGED src_pc
           ELSE /\ src_pc' = [src_pc EXCEPT ![t] = "loop"]
                /\ UNCHANGED pc
    /\ UNCHANGED <<dashboard_state, gdelt_state, gtrends_state, cloudflare_state,
                   threads_started, raw, cyc, now, save_err, calc>>

\* ----------------------------------------------------------- source loops
StateOf(s) ==
    IF s = "gdelt" THEN gdelt_state
    ELSE IF s = "gtrends" THEN gtrends_state
    ELSE cloudflare_state

\* Mutant of SetState: the Cloudflare loop, written after the GDELT loop, still
\* assigns to _gdelt_state.
SetState_aliased(s, v) ==
    /\ gdelt_state' = IF s \in {"gdelt", "cloudflare"} THEN v ELSE gdelt_state
    /\ gtrends_state' = IF s = "gtrends" THEN v ELSE gtrends_state
    /\ cloudflare_state' = cloudflare_state

\* Thread s replaces its own dictionary by v; the other two are untouched.
SetState(s, v) ==
    /\ gdelt_state' = IF s = "gdelt" THEN v ELSE gdelt_state
    /\ gtrends_state' = IF s = "gtrends" THEN v ELSE gtrends_state
    /\ cloudflare_state' = IF s = "cloudflare" THEN v ELSE cloudflare_state

\* sum(l1_count + l2_count) over a published payload, 0 for {}.
TermCount(regional) == IF regional.present THEN regional.n ELSE 0

\* Mutant of GtrendsAccept: the factor 0.5 is lost.
GtrendsAccept_no_half(new_terms, old_terms) ==
    new_terms >= old_terms \/ old_terms = 0

\* if new_terms >= old_terms * 0.5 or old_terms == 0
GtrendsAccept(new_terms, old_terms) ==
    2 * new_terms >= old_terms \/ old_terms = 0

\* The test that guards the publication of a fetched result r by source s:
\* "if raw:" / "if regional:" / "if data:" plus, for Google Trends, the
\* acceptance heuristic against the payload currently published.
Accepts(s, r) ==
    /\ r.kind = "data"
    /\ s = "gtrends" => GtrendsAccept(r.n, TermCount(gtrends_state.regional))

\* while True: if not state["fetching"]: state["fetching"] = True
source_loop_begin(s) ==
    /\ src_pc[s] = "loop"
    /\ IF ~StateOf(s).fetching
         THEN /\ SetState(s, [StateOf(s) EXCEPT !.fetching = TRUE])
              /\ src_pc' = [src_pc EXCEPT ![s] = "fetch"]
         ELSE /\ UNCHANGED <<gdelt_state, gtrends_state, cloudflare_state, src_pc>>
    /\ UNCHANGED <<dashboard_state, threads_started, launched, raw, pc, cyc,
                   now, save_err, calc>>

\* raw = fetch_*_regional(): raises, returns {} (no client / no token / init
\* error), or returns one entry per region with n sub-items retrieved (n = 0
\* when every query failed: the entries are then the neutral defaults).
source_fetch(s) ==
    /\ src_pc[s] = "fetch"
    /\ \E r \in FetchOutcomes(s) :
         /\ raw' = [raw EXCEPT ![s] = r]
         /\ src_pc' = [src_pc EXCEPT ![s] = IF r.kind = "raise" THEN "finally" ELSE "got"]
    /\ UNCHANGED <<dashboard_state, gdelt_state, gtrends_state, cloudflare_state,
                   threads_started, launched, pc, cyc, now, save_err, calc>>

\* Mutant of source_publish: the time stamp is written where the payload
\* should be.
source_publish_stamp_first(s) ==
    /\ src_pc[s] = "got"
    /\ IF Accepts(s, raw[s])
         THEN /\ SetState(s, [StateOf(s) EXCEPT !.last_updated = now])
              /\ src_pc' = [src_pc EXCEPT ![s] = "stamp"]
         ELSE /\ UNCHANGED <<gdelt_state, gtrends_state, cloudflare_state>>
              /\ src_pc' = [src_pc EXCEPT ![s] = "finally"]
    /\ UNCHANGED <<dashboard_state, threads_started, launched, raw, pc, cyc,
                   now, save_err, calc>>

\* if raw: [accepted:] state["regional"] = scored
source_publish(s) ==
    /\ src_pc[s] = "got"
    /\ IF Accepts(s, raw[s])
         THEN /\ SetState(s, [StateOf(s) EXCEPT !.regional = Payload(raw[s].n)])
              /\ src_pc' = [src_pc EXCEPT ![s] = "stamp"]
         ELSE /\ UNCHANGED <<gdelt_state, gtrends_state, cloudflare_state>>
              /\ src_pc' = [src_pc EXCEPT ![s] = "finally"]
    /\ UNCHANGED <<dashboard_state, threads_started, launched, raw, pc, cyc,
                   now, save_err, calc>>

\* state["last_updated"] = _time.time()
source_stamp(s) ==
    /\ src_pc[s] = "stamp"
    /\ SetState(s, [StateOf(s) EXCEPT !.last_updated = now])
    /\ src_pc' = [src_pc EXCEPT ![s] = "finally"]
    /\ UNCHANGED <<dashboard_state, threads_started, launched, raw, pc, cyc,
                   now, save_err, calc>>

\* Mutant of source_finally: the flag is not cleared at the end of the cycle.
source_finally_keeps_flag(s) ==
    /\ src_pc[s] = "finally"
    /\ raw' = [raw EXCEPT ![s] = NoRaw]
    /\ src_pc' = [src_pc EXCEPT ![s] = "loop"]
    /\ UNCHANGED <<dashboard_state, gdelt_state, gtrends_state, cloudflare_state,
                   threads_started, launched, pc, cyc, now, save_err, calc>>

\* finally: state["fetching"] = False; then _time.sleep(...) and loop again
source_finally(s) ==
    /\ src_pc[s] = "finally"
    /\ SetState(s, [StateOf(s) EXCEPT !.fetching = FALSE])
    /\ raw' = [raw EXCEPT ![s] = NoRaw]
    /\ src_pc' = [src_pc EXCEPT ![s] = "loop"]
    /\ UNCHANGED <<dashboard_state, threads_started, launched, pc, cyc,
                   now, save_err, calc>>

\* -------------------------------------------------- refresh_dashboard_data
\* Identities of the snapshots that are published or being built.
InUse == {dashboard_state.scores, dashboard_state.html} \cup {cyc[w] : w \in Refreshers}

\* The identity of the snapshot a starting cycle builds.
FreshCycle == CHOOSE c \in 1..(MaxWorkers + 3) : c \notin InUse

\* return from refresh_dashboard_data: a request thread ends, the keepalive
\* loop goes to _time.sleep(180).
Return(w) == IF w = Keepalive THEN "sleep" ELSE "idle"

\* if _dashboard_state["updating"]: return
refresh_check(w) ==
    /\ pc[w] = "check"
    /\ pc' = [pc EXCEPT ![w] = IF dashboard_state.updating THEN Return(w) ELSE "set"]
    /\ UNCHANGED <<dashboard_state, gdelt_state, gtrends_state, cloudflare_state,
                   threads_started, launched, src_pc, raw, cyc, now, save_err, calc>>

\* _dashboard_state["updating"] = True
refresh_set(w) ==
    /\ pc[w] = "set"
    /\ dashboard_state' = [dashboard_state EXCEPT !.updating = TRUE]
    /\ pc' = [pc EXCEPT ![w] = "body"]
    /\ UNCHANGED <<gdelt_state, gtrends_state, cloudflare_state,
                   threads_started, launched, src_pc, raw, cyc, now, save_err, calc>>

\* Fetching, scoring and _dashboard_state["scores"] = {...}.
PublishScores(w) ==
    /\ dashboard_state' = [dashboard_state EXCEPT !.scores = FreshCycle]
    /\ cyc' = [cyc EXCEPT ![w] = FreshCycle]
    /\ pc' = [pc EXCEPT ![w] = "save"]

\* A step of the try block raises: control goes to the except clause.
Raise(w) ==
    /\ pc' = [pc EXCEPT ![w] = "except"]
    /\ UNCHANGED <<dashboard_state, cyc>>

\* The try block up to the assignment of "scores".
refresh_body(w) ==
    /\ pc[w] = "body"
    /\ PublishScores(w) \/ Raise(w)
    /\ UNCHANGED <<gdelt_state, gtrends_state, cloudflare_state,
                   threads_started, launched, src_pc, raw, now, save_err, calc>>

\* Mutant of refresh_save: a failure of the store is not caught and reaches
\* the except clause of refresh_dashboard_data.
refresh_save_uncaught(w) ==
    /\ pc[w] = "save"
    /\ \E failed \in BOOLEAN :
         pc' = [pc EXCEPT ![w] = IF failed THEN "except" ELSE "render"]
    /\ UNCHANGED <<dashboard_state, gdelt_state, gtrends_state, cloudflare_state,
                   threads_started, launched, src_pc, raw, cyc, now, save_err, calc>>

\* try: save_score_snapshot(...); save_contract_snapshots(...);
\* save_regional_scores(...) except Exception: print, then
\* fetch_score_history() and fetch_regional_score_history().  Each of the five
\* catches the failure of its store operation, logs it and returns (the two
\* reads return an empty history).  save_err[w] stands for what the failure
\* leaves in the thread's locals (nothing saved, score_history = [],
\* regional_history = {}); the rendering consumes them.
refresh_save(w) ==
    /\ pc[w] = "save"
    /\ \E failed \in BOOLEAN : save_err' = [save_err EXCEPT ![w] = failed]
    /\ pc' = [pc EXCEPT ![w] = "render"]
    /\ UNCHANGED <<dashboard_state, gdelt_state, gtrends_state, cloudflare_state,
                   threads_started, launched, src_pc, raw, cyc, now, calc>>

\* render_template_string and _dashboard_state["html"] = html.
PublishHtml(w) ==
    /\ dashboard_state' = [dashboard_state EXCEPT !.html = cyc[w]]
    /\ pc' = [pc EXCEPT ![w] = "stamp"]
    /\ UNCHANGED cyc

refresh_render(w) ==
    /\ pc[w] = "render"
    /\ PublishHtml(w) \/ Raise(w)
    /\ save_err' = [save_err EXCEPT ![w] = FALSE]
    /\ UNCHANGED <<gdelt_state, gtrends_state, cloudflare_state,
                   threads_started, launched, src_pc, raw, now, calc>>

\* _dashboard_state["last_updated"] = _time.time()
refresh_stamp(w) ==
    /\ pc[w] = "stamp"
    /\ dashboard_state' = [dashboard_state EXCEPT !.last_updated = now]
    /\ pc' = [pc EXCEPT ![w] = "finally"]
    /\ UNCHANGED <<gdelt_state, gtrends_state, cloudflare_state,
                   threads_started, launched, src_pc, raw, cyc, now, save_err, calc>>

\* Mutant of refresh_except: the error page is stored whatever html holds.
refresh_except_unguarded(w) ==
    /\ pc[w] = "except"
    /\ dashboard_state' = [dashboard_state EXCEPT !.html = ErrorPage]
    /\ pc' = [pc EXCEPT ![w] = "finally"]
    /\ UNCHANGED <<gdelt_state, gtrends_state, cloudflare_state,
                   threads_started, launched, src_pc, raw, cyc, now, save_err, calc>>

\* except Exception: if _dashboard_state["html"] is None: html = error page
\* (the rendering of the error page may itself raise, which leaves html as
\* it is and reaches the finally clause all the same).
refresh_except(w) ==
    /\ pc[w] = "except"
    /\ \/ dashboard_state' =
            [dashboard_state EXCEPT !.html = IF @ = NoHtml THEN ErrorPage ELSE @]
       \/ dashboard_state.html = NoHtml /\ UNCHANGED dashboard_state
    /\ pc' = [pc EXCEPT ![w] = "finally"]
    /\ UNCHANGED <<gdelt_state, gtrends_state, cloudflare_state,
                   threads_started, launched, src_pc, raw, cyc, now, save_err, calc>>

\* Mutant of refresh_finally: the function returns without clearing the flag.
refresh_finally_keeps_flag(w) ==
    /\ pc[w] = "finally"
    /\ cyc' = [cyc EXCEPT ![w] = 0]
    /\ pc' = [pc EXCEPT ![w] = Return(w)]
    /\ UNCHANGED <<dashboard_state, gdelt_state, gtrends_state, cloudflare_state,
                   threads_started, launched, src_pc, raw, now, save_err, calc>>

\* finally: _dashboard_state["updating"] = False
refresh_finally(w) ==
    /\ pc[w] = "finally"
    /\ dashboard_state' = [dashboard_state EXCEPT !.updating = FALSE]
    /\ cyc' = [cyc EXCEPT ![w] = 0]
    /\ pc' = [pc EXCEPT ![w] = Return(w)]
    /\ UNCHANGED <<gdelt_state, gtrends_state, cloudflare_state,
                   threads_started, launched, src_pc, raw, now, save_err, calc>>

\* ---------------------------------------------------------------- keepalive
\* Mutant of keepalive_loop: the staleness test is inverted.
keepalive_loop_inverted ==
    /\ pc[Keepalive] = "sleep"
    /\ pc' = [pc EXCEPT ![Keepalive] =
                IF Stale(KEEPALIVE_STALE_SECS) THEN "sleep" ELSE "check"]
    /\ UNCHANGED <<dashboard_state, gdelt_state, gtrends_state, cloudflare_state,
                   threads_started, launched, src_pc, raw, cyc, now, save_err, calc>>

\* while True: if time() - last_updated > 120: refresh_dashboard_data();
\* sleep(180).  The wake-up of a sleep may come at any time.
keepalive_loop ==
    /\ pc[Keepalive] = "sleep"
    /\ pc' = [pc EXCEPT ![Keepalive] =
                IF Stale(KEEPALIVE_STALE_SECS) THEN "check" ELSE "sleep"]
    /\ UNCHANGED <<dashboard_state, gdelt_state, gtrends_state, cloudflare_state,
                   threads_started, launched, src_pc, raw, cyc, now, save_err, calc>>

\* ------------------------------------------------------------------- routes
\* threading.Thread(target=bg).start(): a new thread enters
\* refresh_dashboard_data.  Threads beyond MaxWorkers are not followed.
Spawn ==
    IF \E w \in Workers : pc[w] = "idle"
      THEN LET w == CHOOSE v \in Workers : pc[v] = "idle"
           IN  pc' = [pc EXCEPT ![w] = "check"]
      ELSE UNCHANGED pc

\* What /api/scores answers: 0 stands for {"error": "No data yet"}, c for the
\* scores record of cycle c.
ApiBody == dashboard_state.scores

\* What / answers: 0 stands for the loading page, ErrorPage for the "Failed to
\* load" page, c for the page rendered by cycle c.
DashboardBody == dashboard_state.html

\* Mutant of api_scores: a stale request stamps last_updated itself to hold
\* back further refresh threads.
api_scores_stamping ==
    /\ threads_started
    /\ IF Stale(API_STALE_SECS)
         THEN /\ Spawn
              /\ dashboard_state' = [dashboard_state EXCEPT !.last_updated = now]
         ELSE UNCHANGED <<pc, dashboard_state>>
    /\ UNCHANGED <<gdelt_state, gtrends_state, cloudflare_state,
                   threads_started, launched, src_pc, raw, cyc, now, save_err, calc>>

api_scores ==
    /\ threads_started
    /\ IF Stale(API_STALE_SECS) THEN Spawn ELSE UNCHANGED pc
    /\ UNCHANGED <<dashboard_state, gdelt_state, gtrends_state, cloudflare_state,
                   threads_started, launched, src_pc, raw, cyc, now, save_err, calc>>

dashboard ==
    /\ threads_started
    /\ IF dashboard_state.html = NoHtml \/ Stale(DASHBOARD_STALE_SECS)
         THEN Spawn ELSE UNCHANGED pc
    /\ UNCHANGED <<dashboard_state, gdelt_state, gtrends_state, cloudflare_state,
                   threads_started, launched, src_pc, raw, cyc, now, save_err, calc>>

\* ------------------------------------------------------------ specifications
SourceStep == \E s \in Sources :
    \/ source_loop_begin(s)
    \/ source_fetch(s)
    \/ source_publish(s)
    \/ source_stamp(s)
    \/ source_finally(s)

RefreshStep == \E w \in Refreshers :
    \/ refresh_check(w)
    \/ refresh_set(w)
    \/ refresh_body(w)
    \/ refresh_save(w)
    \/ refresh_render(w)
    \/ refresh_stamp(w)
    \/ refresh_except(w)
    \/ refresh_finally(w)

Next ==
    \/ start_background_threads
    \/ staggered_start
    \/ Tick
    \/ SourceStep
    \/ RefreshStep
    \/ keepalive_loop
    \/ api_scores
    \/ dashboard

Spec == Init /\ [][Next]_vars

\* The source loops never read _dashboard_state, and refresh_dashboard_data
\* and the routes never write a source state, so each half of the scheduler is
\* also checked on its own: the behaviours of SourceSpec and of DashboardSpec
\* are the behaviours of Spec in which the other half is not scheduled.
SourceNext ==
    \/ start_background_threads
    \/ staggered_start
    \/ Tick
    \/ SourceStep

SourceSpec == Init /\ [][SourceNext]_vars

DashboardNext ==
    \/ start_background_threads
    \/ staggered_start
    \/ Tick
    \/ RefreshStep
    \/ keepalive_loop
    \/ api_scores
    \/ dashboard

DashboardSpec == Init /\ [][DashboardNext]_vars

\* The three source loops and the rebuild of the keepalive thread running
\* side by side (no request threads, clock held).
SliceNext ==
    \/ start_background_threads
    \/ staggered_start
    \/ SourceStep
    \/ keepalive_loop
    \/ RefreshStep

SliceSpec == Init /\ [][SliceNext]_vars

\* Every step of the loop of source s.
SourceThread(s) ==
    \/ source_loop_begin(s)
    \/ source_fetch(s)
    \/ source_publish(s)
    \/ source_stamp(s)
    \/ source_finally(s)

\* Every step of refresh_dashboard_data in thread w.
RefreshThread(w) ==
    \/ refresh_check(w)
    \/ refresh_set(w)
    \/ refresh_body(w)
    \/ refresh_save(w)
    \/ refresh_render(w)
    \/ refresh_stamp(w)
    \/ refresh_except(w)
    \/ refresh_finally(w)

\* The interpreter keeps scheduling every live thread (weak fairness of each
\* thread's steps); sleeps and fetches return (they are steps of the thread).
StartFairness == WF_vars(start_background_threads) /\ WF_vars(staggered_start)

FairSourceSpec ==
    /\ SourceSpec
    /\ StartFairness
    /\ \A s \in Sources : WF_vars(SourceThread(s))

\* For the dashboard, moreover, no thread is doomed to fail: a thread that
\* reaches a step of the try block again and again gets through it at some
\* point (strong fairness of the non-raising outcome).  Behaviours whose
\* cycles never fail satisfy this.  Requests are left unconstrained: none has
\* to arrive.
FairDashboardSpec ==
    /\ DashboardSpec
    /\ StartFairness
    /\ WF_vars(keepalive_loop)
    /\ \A w \in Refreshers :
         /\ WF_vars(RefreshThread(w))
         /\ SF_vars(refresh_body(w) /\ pc'[w] = "save")
         /\ SF_vars(refresh_render(w) /\ pc'[w] = "stamp")

\* The four guarded cycles under one specification: the behaviours of Spec in
\* which the source loops and the rebuilds do not overlap.  The rebuild
\* threads are scheduled while no source loop is in a cycle or has published,
\* the source loops while no rebuild has begun.
SourcesQuiet ==
    \A s \in Sources :
       src_pc[s] \in {"off", "loop"} /\ StateOf(s) = InitSourceState /\ raw[s] = NoRaw

DashboardQuiet ==
    /\ dashboard_state.html = NoHtml /\ dashboard_state.scores = NoScores
    /\ dashboard_state.last_updated = 0 /\ ~dashboard_state.updating
    /\ \A w \in Refreshers : pc[w] \in {"off", "sleep", "idle"}

GuardNext ==
    \/ start_background_threads
    \/ staggered_start
    \/ Tick
    \/ DashboardQuiet /\ SourceStep
    \/ SourcesQuiet /\ RefreshStep
    \/ SourcesQuiet /\ keepalive_loop
    \/ SourcesQuiet /\ api_scores
    \/ SourcesQuiet /\ dashboard

GuardSpec == Init /\ [][GuardNext]_vars

\* Every thread that is scheduled keeps being scheduled; a cycle may fail or
\* be rejected every time.
FairGuardSpec ==
    /\ GuardSpec
    /\ StartFairness
    /\ \A s \in Sources : WF_vars(DashboardQuiet /\ SourceThread(s))
    /\ WF_vars(SourcesQuiet /\ keepalive_loop)
    /\ \A w \in Refreshers : WF_vars(SourcesQuiet /\ RefreshThread(w))

\* ========================================================= scoring functions
\* Numbers are fixed point: a z-score is an integer number of tenths, a score
\* an integer number of tenths (50.0 is 500), a price, mean or deviation an
\* integer number of ten-thousandths (baselines are stored rounded to four
\* decimals).

\* Bounds of the inputs the scoring functions are evaluated on.
MaxZ == 115     \* every z from -MaxZ to MaxZ tenths
FarZ == 10915   \* and the z of magnitudes FarZ..FarZ + 10 tenths, either sign

\* What a call holds before it has returned, and what it holds when
\* math.exp has raised OverflowError ("math range error").
Pending       == -2
OverflowError == -1

Min(a, b) == IF a < b THEN a ELSE b
Max(a, b) == IF a > b THEN a ELSE b

\* round(x, 1) of a value given in hundredths, in tenths.
Round1(h) == (h + 5) \div 10

\* 100 / (1 + math.exp(-0.65 * z)) in hundredths (rounded down), for
\* z = -11.0, -10.9, ..., 11.0.
SigmoidTable ==
    << 7,    8,    8,    9,   10,   10,   11,   12,   13,   14,   15,   16,   17,
         18,   19,   20,   22,   23,   25,   26,   28,   30,   32,   34,   37,   39,
         42,   45,   48,   51,   54,   58,   62,   66,   71,   75,   80,   86,   91,
         98,  104,  111,  118,  126,  135,  144,  153,  163,  174,  186,  198,  211,
        225,  240,  255,  272,  290,  309,  329,  350,  373,  397,  422,  450,  478,
        509,  541,  575,  612,  650,  691,  734,  779,  827,  878,  932,  988, 1047,
       1110, 1176, 1245, 1318, 1394, 1474, 1557, 1645, 1736, 1831, 1930, 2034, 2141,
       2253, 2368, 2488, 2611, 2738, 2869, 3004, 3143, 3284, 3429, 3577, 3728, 3881,
       4037, 4194, 4353, 4514, 4675, 4837, 5000, 5162, 5324, 5485, 5646, 5805, 5962,
       6118, 6271, 6422, 6570, 6715, 6856, 6995, 7130, 7261, 7388, 7511, 7631, 7746,
       7858, 7965, 8069, 8168, 8263, 8354, 8442, 8525, 8605, 8681, 8754, 8823, 8889,
       8952, 9011, 9067, 9121, 9172, 9220, 9265, 9308, 9349, 9387, 9424, 9458, 9490,
       9521, 9549, 9577, 9602, 9626, 9649, 9670, 9690, 9709, 9727, 9744, 9759, 9774,
       9788, 9801, 9813, 9825, 9836, 9846, 9855, 9864, 9873, 9881, 9888, 9895, 9901,
       9908, 9913, 9919, 9924, 9928, 9933, 9937, 9941, 9945, 9948, 9951, 9954, 9957,
       9960, 9962, 9965, 9967, 9969, 9971, 9973, 9974, 9976, 9977, 9979, 9980, 9981,
       9982, 9983, 9984, 9985, 9986, 9987, 9988, 9989, 9989, 9990, 9991, 9991, 9992 >>
\* Mutant of Sigmoid: the sign of the exponent is lost, exp(0.65 * z).
Sigmoid_sign_lost(zt) ==
    IF zt > 110 THEN SigmoidTable[1]
    ELSE IF zt < -110 THEN SigmoidTable[221]
    ELSE SigmoidTable[111 - zt]

\* 100 / (1 + math.exp(-0.65 * z)) for z of zt tenths.  Beyond the table the
\* value lies between its last entry and 100 (below its first entry and above
\* 0), which min(99.9, .) and max(0.1, .) map like the entry itself.
Sigmoid(zt) ==
    IF zt > 110 THEN SigmoidTable[221]
    ELSE IF zt < -110 THEN SigmoidTable[1]
    ELSE SigmoidTable[zt + 111]

\* math.exp(x) raises OverflowError when x exceeds 709.782 (the logarithm of
\* the largest double); here x = -0.65 * z, compared in thousandths.
ExpOverflows(zt) == -65 * zt > 709782

\* def z_to_centred_score(z):
\*     return round(max(0.1, min(99.9, 100 / (1 + math.exp(-0.65 * z)))), 1)
z_to_centred_score(zt) ==
    IF ExpOverflows(zt) THEN OverflowError
    ELSE Round1(Max(10, Min(9990, Sigmoid(zt))))

\* The z the normalizer is evaluated on.
ZInputs ==
    (-MaxZ..MaxZ) \cup (FarZ..(FarZ + 10)) \cup {-zt : zt \in FarZ..(FarZ + 10)}

NormalizerInit ==
    /\ SchedulerInit
    /\ \E zt \in ZInputs :
         calc = [fn |-> "z_to_centred_score", arg |-> zt, ret |-> Pending]

\* One call of z_to_centred_score, from its argument to its result.
call_z_to_centred_score ==
    /\ calc.fn = "z_to_centred_score"
    /\ calc.ret = Pending
    /\ calc' = [calc EXCEPT !.ret = z_to_centred_score(calc.arg)]
    /\ UNCHANGED sched_vars

NormalizerSpec == NormalizerInit /\ [][call_z_to_centred_score]_vars

\* ------------------------------------------------------- Polymarket signal
PM_MATURITY_THRESHOLD == 50
PM_STD_FLOOR          == 100   \* 0.01 in ten-thousandths

MaxContracts == 2   \* contracts in the list a signal is computed from

\* a / b rounded to the nearest integer (b > 0).
RoundDiv(a, b) == (2 * a + b) \div (2 * b)

\* baselines.get(q): None, or the entry fetch_contract_baselines built for the
\* question (mean and std rounded to four decimals, count of observations).
NoBaseline == [found |-> FALSE, mean |-> 0, std |-> 0, count |-> 0]
Baselines ==
    [found : {TRUE}, mean : {1000}, std : {10, 50, 200},
     count : {PM_MATURITY_THRESHOLD - 1, PM_MATURITY_THRESHOLD}]

\* A contract of filter_geopolitical_markets with the baseline its question
\* looks up.
Contracts ==
    [risk_price : {600, 1400}, volume : {0, 1, 3}, bl : Baselines \cup {NoBaseline}]

\* Lists of at most MaxContracts contracts.
ContractLists == UNION {[1..n -> Contracts] : n \in 0..MaxContracts}

\* entry["mature"] = not (n < PM_MATURITY_THRESHOLD); a contract passes
\* "bl is None or not bl.get('mature', False)" when its baseline is mature.
IsMature(m) == m.bl.found /\ m.bl.count >= PM_MATURITY_THRESHOLD

\* z = (m["risk_price"] - bl["mean"]) / max(bl["std"], PM_STD_FLOOR)
\*     if bl["std"] > 0.001 else 0.0, rounded; in tenths.
ContractZ(m) ==
    IF m.bl.std > 10
      THEN RoundDiv((m.risk_price - m.bl.mean) * 10, Max(m.bl.std, PM_STD_FLOOR))
      ELSE 0

\* sum(f[i] for i in 1..n)
RECURSIVE SumTo(_, _)
SumTo(f, n) == IF n = 0 THEN 0 ELSE f[n] + SumTo(f, n - 1)

\* Mutant of AggZ: the volumes are ignored, the mean is always unweighted.
AggZ_unweighted(mature) ==
    RoundDiv(SumTo([i \in 1..Len(mature) |-> ContractZ(mature[i])], Len(mature)),
             Len(mature))

\* agg_z = sum(z * volume) / total_vol if total_vol > 0 else np.mean(z)
AggZ(mature) ==
    LET total_vol == SumTo([i \in 1..Len(mature) |-> mature[i].volume], Len(mature))
    IN  IF total_vol > 0
          THEN RoundDiv(SumTo([i \in 1..Len(mature) |->
                                  ContractZ(mature[i]) * mature[i].volume], Len(mature)),
                        total_vol)
          ELSE RoundDiv(SumTo([i \in 1..Len(mature) |-> ContractZ(mature[i])],
                              Len(mature)),
                        Len(mature))

\* The score and the stats of a Polymarket signal that the claims read.
Signal(score, method, agg_z, mature_count, immature_count, zs) ==
    [score |-> score, method |-> method, agg_z |-> agg_z,
     mature_count |-> mature_count, immature_count |-> immature_count, zs |-> zs]

\* The result of a call that has not returned.
NoSignal == Signal(Pending, "none", 0, 0, 0, <<>>)

\* def calculate_polymarket_score_normalised(contracts, baselines)
calculate_polymarket_score_normalised(contracts) ==
    IF Len(contracts) = 0
      THEN Signal(500, "z-score", 0, 0, 0, <<>>)
      ELSE LET mature == SelectSeq(contracts, IsMature)
               zs     == [i \in 1..Len(mature) |-> ContractZ(mature[i])]
           IN  IF Len(mature) = 0
                 THEN Signal(500, "z-score", 0, 0, Len(contracts), <<>>)
                 ELSE Signal(z_to_centred_score(AggZ(mature)), "z-score", AggZ(mature),
                             Len(mature), Len(contracts) - Len(mature), zs)

\* avg = np.mean([m["risk_price"] for m in contracts]); round(avg * 100, 1)
CrudeScore(contracts) ==
    RoundDiv(SumTo([i \in 1..Len(contracts) |-> contracts[i].risk_price],
                   Len(contracts)),
             10 * Len(contracts))

\* Mutant of polymarket_signal: the test "if pm_baselines" is inverted.
polymarket_signal_inverted(scope, contracts, have_baselines) ==
    IF have_baselines
      THEN Signal(500, "none", 0, 0, 0, <<>>)
      ELSE calculate_polymarket_score_normalised(contracts)

\* The Polymarket signal of one scope, as refresh_dashboard_data obtains it:
\* "all" is pm_score, "region" an entry of calculate_polymarket_regional_scores,
\* "global" is global_pm_score.  have_baselines is the truth value of the dict
\* fetch_contract_baselines returned ({} when the store has no rows or failed).
polymarket_signal(scope, contracts, have_baselines) ==
    IF scope = "region" /\ Len(contracts) = 0
      THEN Signal(500, "none", 0, 0, 0, <<>>)
    ELSE IF have_baselines
      THEN calculate_polymarket_score_normalised(contracts)
    ELSE IF scope = "global"
      THEN Signal(500, "none", 0, 0, 0, <<>>)
    ELSE IF Len(contracts) = 0
      THEN Signal(500, "crude", 0, 0, 0, <<>>)
      ELSE Signal(CrudeScore(contracts), "crude", 0, 0, Len(contracts), <<>>)

Scopes == {"all", "region", "global"}

\* A scope, its contracts and the baselines: a contract can only have found a
\* baseline in a dict that is not empty.
PolymarketInit ==
    /\ SchedulerInit
    /\ \E scope \in Scopes, contracts \in ContractLists, have_baselines \in BOOLEAN :
         /\ (\E i \in 1..Len(contracts) : contracts[i].bl.found) => have_baselines
         /\ calc = [fn |-> "polymarket_signal", scope |-> scope, contracts |-> contracts,
                    have_baselines |-> have_baselines, ret |-> NoSignal]

\* One computation of a Polymarket signal, from its inputs to its result.
call_polymarket_signal ==
    /\ calc.fn = "polymarket_signal"
    /\ calc.ret = NoSignal
    /\ calc' = [calc EXCEPT !.ret =
                  polymarket_signal(calc.scope, calc.contracts, calc.have_baselines)]
    /\ UNCHANGED sched_vars

PolymarketSpec == PolymarketInit /\ [][call_polymarket_signal]_vars

\* ------------------------------------------------------- regional composite
MaxGrid == 4   \* scores tried on either side of 50.0, 7.7 apart

\* A missing signal (None).
None == -1

\* The scores a signal is tried with, in tenths: the ends of the range and a
\* grid around 50.0.
ScoreInputs == {1, 999} \cup {500 + 77 * k : k \in (-MaxGrid)..MaxGrid}

\* Mutant of calculate_regional_composite: the weights are not renormalised,
\* the blend is divided by the full weight 1.0.
calculate_regional_composite_full_weight(pm_score, mkt_score, gt_panic_score) ==
    LET weighted ==
            (IF pm_score # None THEN <<<<pm_score, 375>>>> ELSE <<>>)
          \o (IF mkt_score # None THEN <<<<mkt_score, 375>>>> ELSE <<>>)
          \o (IF gt_panic_score # None THEN <<<<gt_panic_score, 250>>>> ELSE <<>>)
    IN  IF Len(weighted) = 0
          THEN 500
          ELSE RoundDiv(SumTo([i \in 1..Len(weighted) |->
                                  weighted[i][1] * weighted[i][2]], Len(weighted)),
                        1000)

\* def calculate_regional_composite(pm_score, mkt_score, gt_panic_score=None, ...)
\* Weights in thousandths; the GDELT, global-search and Cloudflare parameters
\* are not read.
calculate_regional_composite(pm_score, mkt_score, gt_panic_score) ==
    LET weighted ==
            (IF pm_score # None THEN <<<<pm_score, 375>>>> ELSE <<>>)
          \o (IF mkt_score # None THEN <<<<mkt_score, 375>>>> ELSE <<>>)
          \o (IF gt_panic_score # None THEN <<<<gt_panic_score, 250>>>> ELSE <<>>)
        total_w == SumTo([i \in 1..Len(weighted) |-> weighted[i][2]], Len(weighted))
    IN  IF Len(weighted) = 0
          THEN 500
          ELSE RoundDiv(SumTo([i \in 1..Len(weighted) |->
                                  weighted[i][1] * weighted[i][2]], Len(weighted)),
                        total_w)

CompositeInit ==
    /\ SchedulerInit
    /\ \E pm_score, mkt_score, gt_panic_score \in ScoreInputs \cup {None} :
         calc = [fn |-> "calculate_regional_composite",
                 arg |-> <<pm_score, mkt_score, gt_panic_score>>, ret |-> Pending]

\* One call of calculate_regional_composite, from its arguments to its result.
call_calculate_regional_composite ==
    /\ calc.fn = "calculate_regional_composite"
    /\ calc.ret = Pending
    /\ calc' = [calc EXCEPT !.ret =
                  calculate_regional_composite(calc.arg[1], calc.arg[2], calc.arg[3])]
    /\ UNCHANGED sched_vars

CompositeSpec == CompositeInit /\ [][call_calculate_regional_composite]_vars

\* -------------------------------------------------------- convergence label
MaxSignals == 6   \* signals in the dict a convergence label is computed from

\* Mutant of get_convergence_status: a signal exactly at 58.0 or at 42.0 is
\* neutral (v > 58, v < 42).
get_convergence_status_strict(scores) ==
    LET active == SelectSeq(scores, LAMBDA v : v # None)
        ne     == Len(SelectSeq(active, LAMBDA v : v > 580))
        nd     == Len(SelectSeq(active, LAMBDA v : v < 420))
    IN  IF Len(active) = 0 THEN [label |-> "No Data", colour |-> "#888"]
        ELSE IF ne = 0 /\ nd = 0 THEN [label |-> "Quiet", colour |-> "#b0b0b0"]
        ELSE IF ne >= 3 THEN [label |-> "Broad Escalation", colour |-> "#f87171"]
        ELSE IF nd >= 3 THEN [label |-> "Broad De-escalation", colour |-> "#34d399"]
        ELSE IF ne >= 2 /\ nd = 0 THEN [label |-> "Confirming", colour |-> "#fb923c"]
        ELSE IF nd >= 2 /\ ne = 0 THEN [label |-> "Calming", colour |-> "#6ee7b7"]
        ELSE IF ne >= 1 /\ nd >= 1 THEN [label |-> "Mixed Signals", colour |-> "#fbbf24"]
        ELSE IF ne = 1 THEN [label |-> "Early Signal", colour |-> "#fbbf24"]
        ELSE [label |-> "Early Calm", colour |-> "#6ee7b7"]

\* def get_convergence_status(scores): the label and the colour returned for
\* the values of the dict, in the order of its keys (the detail text lists the
\* names of the signals counted and is not modelled).
get_convergence_status(scores) ==
    LET active == SelectSeq(scores, LAMBDA v : v # None)
        ne     == Len(SelectSeq(active, LAMBDA v : v >= 580))
        nd     == Len(SelectSeq(active, LAMBDA v : v <= 420))
    IN  IF Len(active) = 0 THEN [label |-> "No Data", colour |-> "#888"]
        ELSE IF ne = 0 /\ nd = 0 THEN [label |-> "Quiet", colour |-> "#b0b0b0"]
        ELSE IF ne >= 3 THEN [label |-> "Broad Escalation", colour |-> "#f87171"]
        ELSE IF nd >= 3 THEN [label |-> "Broad De-escalation", colour |-> "#34d399"]
        ELSE IF ne >= 2 /\ nd = 0 THEN [label |-> "Confirming", colour |-> "#fb923c"]
        ELSE IF nd >= 2 /\ ne = 0 THEN [label |-> "Calming", colour |-> "#6ee7b7"]
        ELSE IF ne >= 1 /\ nd >= 1 THEN [label |-> "Mixed Signals", colour |-> "#fbbf24"]
        ELSE IF ne = 1 THEN [label |-> "Early Signal", colour |-> "#fbbf24"]
        ELSE IF nd = 1 THEN [label |-> "Early Calm", colour |-> "#6ee7b7"]
        ELSE [label |-> "Quiet", colour |-> "#b0b0b0"]

\* The values a signal of the dict is tried with: missing, and the scores on
\* either side of the two bucket limits 42.0 and 58.0.
BucketInputs == {None, 420, 421, 579, 580}

\* The result of a call that has not returned.
NoStatus == [label |-> "pending", colour |-> ""]

ConvergenceInit ==
    /\ SchedulerInit
    /\ \E n \in 0..MaxSignals :
         \E scores \in [1..n -> BucketInputs] :
            calc = [fn |-> "get_convergence_status", scores |-> scores, ret |-> NoStatus]

\* One call of get_convergence_status, from its argument to its result.
call_get_convergence_status ==
    /\ calc.fn = "get_convergence_status"
    /\ calc.ret = NoStatus
    /\ calc' = [calc EXCEPT !.ret = get_convergence_status(calc.scores)]
    /\ UNCHANGED sched_vars

ConvergenceSpec == ConvergenceInit /\ [][call_get_convergence_status]_vars

\* --------------------------------------------------------------- risk level
MaxLevelScore == 1000   \* get_risk_level is called with every score 0.0 .. 100.0

\* def get_score_colour(s)
get_score_colour(s) ==
    IF s < 150 THEN "#34d399"
    ELSE IF s < 300 THEN "#6ee7b7"
    ELSE IF s < 420 THEN "#a3b8a0"
    ELSE IF s < 580 THEN "#b0b0b0"
    ELSE IF s < 700 THEN "#fbbf24"
    ELSE IF s < 850 THEN "#fb923c"
    ELSE "#f87171"

\* Mutant of get_risk_level: the limit between NORMAL and ELEVATED is
\* exclusive (s <= 58).
get_risk_level_exclusive(s) ==
    IF s < 150 THEN [level |-> "UNUSUALLY CALM", colour |-> "#34d399"]
    ELSE IF s < 300 THEN [level |-> "CALM", colour |-> "#6ee7b7"]
    ELSE IF s < 420 THEN [level |-> "BELOW NORMAL", colour |-> "#a3b8a0"]
    ELSE IF s <= 580 THEN [level |-> "NORMAL", colour |-> "#b0b0b0"]
    ELSE IF s < 700 THEN [level |-> "ELEVATED", colour |-> "#fbbf24"]
    ELSE IF s < 850 THEN [level |-> "HIGH", colour |-> "#fb923c"]
    ELSE [level |-> "CRITICAL", colour |-> "#f87171"]

\* def get_risk_level(s)
get_risk_level(s) ==
    IF s < 150 THEN [level |-> "UNUSUALLY CALM", colour |-> "#34d399"]
    ELSE IF s < 300 THEN [level |-> "CALM", colour |-> "#6ee7b7"]
    ELSE IF s < 420 THEN [level |-> "BELOW NORMAL", colour |-> "#a3b8a0"]
    ELSE IF s < 580 THEN [level |-> "NORMAL", colour |-> "#b0b0b0"]
    ELSE IF s < 700 THEN [level |-> "ELEVATED", colour |-> "#fbbf24"]
    ELSE IF s < 850 THEN [level |-> "HIGH", colour |-> "#fb923c"]
    ELSE [level |-> "CRITICAL", colour |-> "#f87171"]

\* The result of a call that has not returned.
NoLevel == [level |-> "pending", colour |-> ""]

RiskInit ==
    /\ SchedulerInit
    /\ \E s \in 0..MaxLevelScore :
         calc = [fn |-> "get_risk_level", arg |-> s, ret |-> NoLevel]

\* One call of get_risk_level, from its argument to its result.
call_get_risk_level ==
    /\ calc.fn = "get_risk_level"
    /\ calc.ret = NoLevel
    /\ calc' = [calc EXCEPT !.ret = get_risk_level(calc.arg)]
    /\ UNCHANGED sched_vars

RiskSpec == RiskInit /\ [][call_get_risk_level]_vars

\* ------------------------------------------------------ regional pipeline
\* The scores a signal of a region is tried with: those of ScoreInputs and the
\* two ends 0.0 and 100.0 that a crude Polymarket score can take.
SignalInputs == ScoreInputs \cup {0, 1000}

\* What a context-only signal (GDELT, global search, Cloudflare) is tried with.
ContextInputs == {None, 731}

\* Mutant of calculate_regional_composites: the GDELT score replaces a missing
\* panic-search score in the blend.
calculate_regional_composites_with_gdelt(pm, mkt, gdelt, gt_panic, gt_global, cloudflare) ==
    LET ps   == IF pm # None THEN pm ELSE 500
        ms   == IF mkt # None THEN mkt ELSE 500
        comp == calculate_regional_composite(ps, ms,
                    IF gt_panic # None THEN gt_panic ELSE gdelt)
        scored_sigs == <<ps, ms, IF gt_panic # None THEN gt_panic ELSE 500>>
    IN  [composite |-> comp,
         convergence_label |-> get_convergence_status(scored_sigs).label,
         signals |-> [polymarket |-> ps, markets |-> ms,
                      gt_panic  |-> IF gt_panic # None THEN gt_panic ELSE 500,
                      gdelt     |-> IF gdelt # None THEN gdelt ELSE 500,
                      gt_global |-> IF gt_global # None THEN gt_global ELSE 500,
                      cloudflare |-> IF cloudflare # None THEN cloudflare ELSE 500]]

\* Mutant of calculate_regional_composites: the panic-search score is added to
\* the blend of the two other signals instead of being blended with them.
calculate_regional_composites_panic_bonus(pm, mkt, gdelt, gt_panic, gt_global, cloudflare) ==
    LET ps   == IF pm # None THEN pm ELSE 500
        ms   == IF mkt # None THEN mkt ELSE 500
        comp == calculate_regional_composite(ps, ms, None)
                  + (IF gt_panic # None THEN gt_panic \div 4 ELSE 0)
        scored_sigs == <<ps, ms, IF gt_panic # None THEN gt_panic ELSE 500>>
    IN  [composite |-> comp,
         convergence_label |-> get_convergence_status(scored_sigs).label,
         signals |-> [polymarket |-> ps, markets |-> ms,
                      gt_panic  |-> IF gt_panic # None THEN gt_panic ELSE 500,
                      gdelt     |-> IF gdelt # None THEN gdelt ELSE 500,
                      gt_global |-> IF gt_global # None THEN gt_global ELSE 500,
                      cloudflare |-> IF cloudflare # None THEN cloudflare ELSE 500]]

\* def calculate_regional_composites(pm_reg, mkt_reg, gdelt_reg, gtrends_reg,
\* cloudflare_reg): the entry rc[rk] built for one region rk.  Each argument is
\* what the .get chain of the source reads for rk: the "score" of pm_reg[rk],
\* mkt_reg[rk], gdelt_reg[rk] and cloudflare_reg[rk], the "panic_score" and
\* "global_score" of gtrends_reg[rk], or None where the region has no entry.
\* ACLED data is not an argument of the function.
calculate_regional_composites(pm, mkt, gdelt, gt_panic, gt_global, cloudflare) ==
    LET ps   == IF pm # None THEN pm ELSE 500
        ms   == IF mkt # None THEN mkt ELSE 500
        comp == calculate_regional_composite(ps, ms, gt_panic)
        scored_sigs == <<ps, ms, IF gt_panic # None THEN gt_panic ELSE 500>>
    IN  [composite |-> comp,
         convergence_label |-> get_convergence_status(scored_sigs).label,
         signals |-> [polymarket |-> ps, markets |-> ms,
                      gt_panic  |-> IF gt_panic # None THEN gt_panic ELSE 500,
                      gdelt     |-> IF gdelt # None THEN gdelt ELSE 500,
                      gt_global |-> IF gt_global # None THEN gt_global ELSE 500,
                      cloudflare |-> IF cloudflare # None THEN cloudflare ELSE 500]]

\* The entry of a region before calculate_regional_composites has returned.
NoEntry ==
    [composite |-> Pending, convergence_label |-> "pending",
     signals |-> [polymarket |-> Pending, markets |-> Pending, gt_panic |-> Pending,
                  gdelt |-> Pending, gt_global |-> Pending, cloudflare |-> Pending]]

RegionalInit ==
    /\ SchedulerInit
    /\ \E pm, mkt, gt_panic \in SignalInputs \cup {None} :
         \E gdelt, gt_global, cloudflare \in ContextInputs :
            calc = [fn |-> "calculate_regional_composites",
                    pm |-> pm, mkt |-> mkt, gt_panic |-> gt_panic, gdelt |-> gdelt,
                    gt_global |-> gt_global, cloudflare |-> cloudflare, ret |-> NoEntry]

\* One pass of the loop of calculate_regional_composites, from what it reads
\* for the region to the entry it stores.
call_calculate_regional_composites ==
    /\ calc.fn = "calculate_regional_composites"
    /\ calc.ret = NoEntry
    /\ calc' = [calc EXCEPT !.ret =
                  calculate_regional_composites(calc.pm, calc.mkt, calc.gdelt,
                                                calc.gt_panic, calc.gt_global,
                                                calc.cloudflare)]
    /\ UNCHANGED sched_vars

\* --------------------------------------------------------- global composite
GLOBAL_REGIONAL_WEIGHT == 85   \* 0.85 in hundredths
GLOBAL_PM_WEIGHT       == 15   \* 0.15 in hundredths

\* The keys of REGIONS.
Regions == {"europe", "middle_east", "asia_pacific"}

\* Mutant of Amp: a score below 42 is amplified at the rate of a score above 58.
Amp_symmetric(s) ==
    IF s > 580 THEN 1000 + (s - 580) * 2
    ELSE IF s < 420 THEN 1000 + (420 - s) * 2
    ELSE 1000

\* amp = 1.0 + (s - 58) * 0.02 if s > 58
\*       else (1.0 + (42 - s) * 0.01 if s < 42 else 1.0), in thousandths.
Amp(s) ==
    IF s > 580 THEN 1000 + (s - 580) * 2
    ELSE IF s < 420 THEN 1000 + (420 - s)
    ELSE 1000

\* sum(f[r] for r in D)
RECURSIVE SumOver(_, _)
SumOver(f, D) ==
    IF D = {} THEN 0
    ELSE LET r == CHOOSE x \in D : TRUE
         IN  f[r] + SumOver(f, D \ {r})

\* round(a / b, 1) with a / b in tenths (a >= 0, b > 0): the nearest tenth; a
\* quotient exactly halfway between two tenths has no exact binary value, and
\* the float that stands for it is rounded to one neighbour or the other.
RoundHalf(a, b) ==
    IF (2 * a) % (2 * b) = b THEN {a \div b, a \div b + 1} ELSE {RoundDiv(a, b)}

\* The weights returned when there is no region.
NoWeights == [r \in {} |-> 0]

\* Mutant of calculate_dynamic_global_score: the amplified weights are used
\* and returned as they are, not divided by their total.
calculate_dynamic_global_score_unnormalised(regional_composites, global_pm_score) ==
    LET gpm == IF global_pm_score # None THEN global_pm_score ELSE 500
        D   == DOMAIN regional_composites
        wts == [r \in D |-> RoundDiv(Amp(regional_composites[r].composite), Cardinality(D))]
        rs  == SumOver([r \in D |-> regional_composites[r].composite * wts[r]], D)
    IN  IF D = {}
          THEN {[score |-> gpm, weights |-> NoWeights]}
          ELSE {[score |-> Max(0, Min(1000, gs)), weights |-> wts] :
                  gs \in RoundHalf(GLOBAL_REGIONAL_WEIGHT * rs
                                     + GLOBAL_PM_WEIGHT * gpm * 1000, 100 * 1000)}

\* def calculate_dynamic_global_score(regional_composites, global_pm_score):
\* the results the call can return, one unless gs is exactly halfway between
\* two tenths.  wts[r] / tw is amp[r] / sum(amp): the base weight bw cancels.
calculate_dynamic_global_score(regional_composites, global_pm_score) ==
    LET gpm == IF global_pm_score # None THEN global_pm_score ELSE 500
        D   == DOMAIN regional_composites
        amp == [r \in D |-> Amp(regional_composites[r].composite)]
        tw  == SumOver(amp, D)
        rs  == SumOver([r \in D |-> regional_composites[r].composite * amp[r]], D)
    IN  IF D = {}
          THEN {[score |-> gpm, weights |-> NoWeights]}
        ELSE IF tw = 0
          THEN {[score |-> 500, weights |-> NoWeights]}
          ELSE {[score |-> Max(0, Min(1000, gs)),
                 weights |-> [r \in D |-> RoundDiv(1000 * amp[r], tw)]] :
                  gs \in RoundHalf(GLOBAL_REGIONAL_WEIGHT * rs
                                     + GLOBAL_PM_WEIGHT * gpm * tw, 100 * tw)}

\* The global Polymarket scores the call is tried with.
GlobalPmInputs == {None, 1, 654, 999}

\* The result of a call that has not returned.
NoGlobal == [score |-> Pending, weights |-> NoWeights]

\* regional_composites holds entries that calculate_regional_composites built,
\* for every region of REGIONS or (the function accepts any dict) for some.
GlobalInit ==
    /\ SchedulerInit
    /\ \E D \in SUBSET Regions, global_pm_score \in GlobalPmInputs :
         \E composites \in [D -> SignalInputs] :
            calc = [fn |-> "calculate_dynamic_global_score",
                    regional_composites |->
                        [r \in D |-> calculate_regional_composites(
                                         composites[r], composites[r], None, None, None, None)],
                    global_pm_score |-> global_pm_score,
                    ret |-> NoGlobal]

\* One call of calculate_dynamic_global_score, from its arguments to its result.
call_calculate_dynamic_global_score ==
    /\ calc.fn = "calculate_dynamic_global_score"
    /\ calc.ret = NoGlobal
    /\ \E result \in calculate_dynamic_global_score(calc.regional_composites,
                                                    calc.global_pm_score) :
         calc' = [calc EXCEPT !.ret = result]
    /\ UNCHANGED sched_vars

\* The scoring of one refresh: the entry of a region, or the global score.
ScoringInit == RegionalInit \/ GlobalInit

ScoringNext ==
    \/ call_calculate_regional_composites
    \/ call_calculate_dynamic_global_score

ScoringSpec == ScoringInit /\ [][ScoringNext]_vars

\* ==================================================================== claims

\* The statements of the try block and of its except and finally clauses.
InBody(w) == pc[w] \in {"body", "save", "render", "stamp", "except", "finally"}

\* C1: single-flight rebuild: at most one thread is between the assignment
\* updating = True and the finally clause of refresh_dashboard_data.
C1_SingleFlight ==
    Cardinality({w \in Refreshers : InBody(w)}) <= 1

\* C2: atomic snapshot publication: in every state the visible scores, html
\* and last_updated belong to the same cycle: when scores are visible, the
\* visible html is the page of the cycle that built them and that cycle's
\* timestamp is in place.
C2_AtomicSnapshot ==
    dashboard_state.scores # NoScores =>
        /\ dashboard_state.html = dashboard_state.scores
        /\ dashboard_state.last_updated > 0

\* C5: a failed rebuild discards its partial work: a cycle that has reached
\* its except clause has left no scores of its own published, and no failed
\* cycle ever puts a page (the "Failed to load" page) into html.
C5_FailedCycleDiscards ==
    /\ \A w \in Refreshers :
         pc[w] = "except" /\ cyc[w] # 0 => dashboard_state.scores # cyc[w]
    /\ dashboard_state.html # ErrorPage

\* C6: not yet available before the first completed cycle: as long as no cycle
\* has completed (last_updated is still 0, which only the last statement of a
\* successful cycle changes), /api/scores answers "No data yet" and / answers
\* the loading page.
C6_NotYetAvailable ==
    dashboard_state.last_updated = 0 =>
        /\ ApiBody = NoScores
        /\ DashboardBody = NoHtml

Published == <<dashboard_state.scores, dashboard_state.html, dashboard_state.last_updated>>

\* C8: idempotent reads: a step of api_scores or dashboard leaves scores, html
\* and last_updated as they are, and what the two routes answer changes only
\* in a publishing step of refresh_dashboard_data.
C8_IdempotentReads ==
    [][ /\ (api_scores \/ dashboard) => Published' = Published
        /\ (ApiBody' # ApiBody \/ DashboardBody' # DashboardBody) =>
              \E w \in Refreshers :
                  refresh_body(w) \/ refresh_render(w) \/ refresh_except(w) ]_vars

\* C8 witness: a published snapshot has been read while stale: the request
\* thread the read started is at the entry of refresh_dashboard_data.
C8_Witness ==
    /\ dashboard_state.scores # NoScores
    /\ dashboard_state.html = dashboard_state.scores
    /\ \E w \in Workers : pc[w] = "check"

\* C3: acceptance heuristic of the Google Trends loop: a non-empty fetched
\* payload with n retrieved terms replaces the published payload exactly when
\* n is at least half the previous term count or the previous count is 0, and
\* is then stamped; otherwise regional and last_updated stay as they are.
C3_AcceptanceHeuristic ==
    [][ LET n   == raw["gtrends"].n
            old == TermCount(gtrends_state.regional)
        IN  /\ (src_pc["gtrends"] = "got" /\ src_pc'["gtrends"] # "got"
                  /\ raw["gtrends"].kind = "data") =>
                 IF n + n >= old \/ old = 0
                   THEN /\ gtrends_state'.regional = Payload(n)
                        /\ src_pc'["gtrends"] = "stamp"
                   ELSE /\ gtrends_state' = gtrends_state
                        /\ src_pc'["gtrends"] = "finally"
            /\ (src_pc["gtrends"] = "stamp" /\ src_pc'["gtrends"] # "stamp") =>
                 gtrends_state'.last_updated = now
            /\ gtrends_state'.last_updated # gtrends_state.last_updated =>
                 src_pc["gtrends"] = "stamp" ]_vars

\* C3 witness: a fetch with fewer than half the published terms has been
\* rejected (the cycle is in its finally clause, the published payload kept).
C3_Witness ==
    /\ src_pc["gtrends"] = "finally"
    /\ raw["gtrends"].kind = "data"
    /\ gtrends_state.regional.present
    /\ 2 * raw["gtrends"].n < gtrends_state.regional.n

\* A fetch that retrieved nothing: it raised, returned {}, or returned only
\* the per-region defaults because every query failed.
AllFailed(r) == r.kind \in {"raise", "empty"} \/ (r.kind = "data" /\ r.n = 0)

\* C4: source unavailable keeps the previous slice: in a cycle whose fetch
\* failed for every region or country, no step changes the source's regional
\* payload or its last_updated.
C4_UnavailableKeepsSlice ==
    [][ \A s \in Sources :
          AllFailed(raw[s]) =>
            /\ StateOf(s)'.regional = StateOf(s).regional
            /\ StateOf(s)'.last_updated = StateOf(s).last_updated ]_vars

\* The values last_updated can hold.
Times == {0} \cup {StartTime + k * TickSecs : k \in 0..MaxTicks}

\* C9: watchdog recovery: a wake-up of the keepalive loop that finds the
\* snapshot older than 120 s enters refresh_dashboard_data in the keepalive
\* thread itself; and once the keepalive loop runs, a stale snapshot is
\* always eventually replaced (last_updated advances), with or without
\* requests.
C9_WatchdogRecovery ==
    /\ [][ (keepalive_loop /\ now - dashboard_state.last_updated > 120) =>
              pc'[Keepalive] = "check" ]_vars
    /\ \A t \in Times :
         (pc[Keepalive] # "off" /\ dashboard_state.last_updated = t
            /\ now - t > 120)
           ~> (dashboard_state.last_updated > t)

\* C9 witness: the keepalive thread itself has rebuilt and stamped a snapshot
\* that had gone stale after an earlier publication.
C9_Witness ==
    /\ pc[Keepalive] = "finally"
    /\ cyc[Keepalive] # 0
    /\ dashboard_state.html = cyc[Keepalive]
    /\ dashboard_state.last_updated = now
    /\ now > StartTime

Slices == <<gdelt_state, gtrends_state, cloudflare_state>>

\* C11: slice ownership: a source dictionary changes only in a step of its own
\* loop, and that step leaves the two other source dictionaries and
\* _dashboard_state as they are; a step of refresh_dashboard_data (one that
\* moves a refresher or changes _dashboard_state) changes none of the three.
C11_SliceOwnership ==
    [][ /\ \A s \in Sources :
             StateOf(s)' # StateOf(s) =>
               /\ src_pc[s] \in {"loop", "got", "stamp", "finally"}
               /\ src_pc'[s] # src_pc[s]
               /\ \A t \in Sources \ {s} : StateOf(t)' = StateOf(t)
               /\ dashboard_state' = dashboard_state
               /\ pc' = pc
        /\ (pc' # pc \/ dashboard_state' # dashboard_state) => Slices' = Slices ]_vars

\* C11 witness: the three loops have published different payloads and the
\* rebuild has read them and published its scores.
C11_Witness ==
    /\ gtrends_state.regional = Payload(MaxItems)
    /\ gdelt_state.regional = Payload(1)
    /\ cloudflare_state.regional = Payload(0)
    /\ pc[Keepalive] = "render"
    /\ dashboard_state.scores = cyc[Keepalive]

\* C12: persistence failure never blocks: the step that saves the snapshot
\* and reads the history goes on to the rendering whether or not the store
\* failed, leaving the published scores in place; a cycle whose store
\* operations failed can render, and when it does it publishes its page; every
\* cycle that has published its page stamps last_updated, and every cycle
\* releases 'updating' in its finally clause and returns.
C12_PersistenceFailureNeverBlocks ==
    [][ \A w \in Refreshers :
          /\ (pc[w] = "save" /\ pc'[w] # "save") =>
                /\ pc'[w] = "render"
                /\ dashboard_state' = dashboard_state
                /\ cyc'[w] = cyc[w]
          /\ (pc[w] = "render" /\ save_err[w]) =>
                /\ ENABLED (refresh_render(w) /\ pc'[w] = "stamp")
                /\ pc'[w] = "stamp" => dashboard_state'.html = cyc[w]
          /\ (pc[w] = "stamp" /\ pc'[w] # "stamp") =>
                /\ dashboard_state'.last_updated = now
                /\ pc'[w] = "finally"
          /\ (pc[w] = "finally" /\ pc'[w] # "finally") =>
                /\ ~dashboard_state'.updating
                /\ pc'[w] = Return(w) ]_vars

\* C12 witness: a cycle whose store operations failed is about to render,
\* its scores published, while the page of an earlier cycle is being served.
C12_Witness ==
    \E w \in Refreshers :
        /\ pc[w] = "render"
        /\ save_err[w]
        /\ dashboard_state.scores = cyc[w]
        /\ dashboard_state.html > 0
        /\ dashboard_state.updating

\* A call of z_to_centred_score has returned or raised.
Normalized == calc.fn = "z_to_centred_score" /\ calc.ret # Pending

\* C17: normalizer bounds: every call of z_to_centred_score returns a score
\* strictly greater than 0.1 and strictly less than 99.9.
C17_NormalizerBounds ==
    Normalized => calc.ret > 1 /\ calc.ret < 999

\* C18: normalizer totality: every call of z_to_centred_score returns a score;
\* none raises, whatever the magnitude of z.
C18_NormalizerTotal ==
    Normalized => calc.ret # OverflowError

\* C19: normalizer monotonicity: the score returned for z is at least the score
\* returned for every smaller z, and the score of z = 0 is 50.0.
C19_NormalizerMonotonic ==
    (Normalized /\ calc.ret # OverflowError) =>
        /\ \A z1 \in ZInputs :
             (z1 < calc.arg /\ z_to_centred_score(z1) # OverflowError) =>
                 z_to_centred_score(z1) <= calc.ret
        /\ calc.arg = 0 => calc.ret = 500

\* C19 witness: calls on either side of 0 have returned different scores, here
\* the one for z = 2.0 (78.6).
C19_Witness ==
    /\ Normalized
    /\ calc.arg = 20
    /\ calc.ret = 786
    /\ z_to_centred_score(-20) = 214

\* A Polymarket signal has been computed.
Scored == calc.fn = "polymarket_signal" /\ calc.ret # NoSignal

\* The contracts of the scope whose baseline is mature, and the others.
MatureContracts == SelectSeq(calc.contracts, IsMature)
ImmatureCount == Len(calc.contracts) - Len(MatureContracts)

C15_FlooredZ ==
    (Scored /\ calc.ret.method = "z-score") =>
        /\ Len(calc.ret.zs) = Len(MatureContracts)
        /\ \A i \in 1..Len(MatureContracts) :
             LET m       == MatureContracts[i]
                 std_eff == IF m.bl.std > PM_STD_FLOOR THEN m.bl.std ELSE PM_STD_FLOOR
             IN  calc.ret.zs[i] = RoundDiv((m.risk_price - m.bl.mean) * 10, std_eff)

\* The volume-weighted sum of the z of the mature contracts, their total
\* volume and their plain sum, from the z the call reports.
WeightedZ == SumTo([i \in 1..Len(MatureContracts) |->
                       calc.ret.zs[i] * MatureContracts[i].volume], Len(MatureContracts))
TotalVolume == SumTo([i \in 1..Len(MatureContracts) |-> MatureContracts[i].volume],
                     Len(MatureContracts))
PlainZ == SumTo(calc.ret.zs, Len(MatureContracts))

\* C16: signal aggregate: with mature contracts, agg_z is
\* sum(z_i * volume_i) / sum(volume_i) when the total volume is positive and
\* the arithmetic mean of the z_i when it is zero (to the nearest tenth), and
\* the score is z_to_centred_score(agg_z).
C16_SignalAggregate ==
    (Scored /\ calc.ret.method = "z-score" /\ Len(MatureContracts) > 0) =>
        /\ calc.ret.mature_count = Len(MatureContracts)
        /\ IF TotalVolume > 0
             THEN 2 * TotalVolume * calc.ret.agg_z \in
                    (2 * WeightedZ - TotalVolume + 1)..(2 * WeightedZ + TotalVolume)
             ELSE 2 * Len(MatureContracts) * calc.ret.agg_z \in
                    (2 * PlainZ - Len(MatureContracts) + 1)..(2 * PlainZ + Len(MatureContracts))
        /\ calc.ret.score = z_to_centred_score(calc.ret.agg_z)

\* C16 witness: two mature contracts of different volume and different z have
\* been aggregated; the weighted mean differs from the plain mean.
C16_Witness ==
    /\ Scored
    /\ calc.ret.method = "z-score"
    /\ Len(MatureContracts) = 2
    /\ TotalVolume > 0
    /\ MatureContracts[1].volume # MatureContracts[2].volume
    /\ calc.ret.zs[1] # calc.ret.zs[2]
    /\ calc.ret.agg_z * 2 # PlainZ

\* A call of calculate_regional_composite has returned.
Blended == calc.fn = "calculate_regional_composite" /\ calc.ret # Pending

\* The weights of Polymarket, markets and panic search, in thousandths.
BlendWeights == <<375, 375, 250>>

\* The signals that are not missing.
PresentSignals == {i \in 1..3 : calc.arg[i] # None}

\* sum(s_i * w_i) and sum(w_i) over the signals of the set sigs.
RECURSIVE BlendSum(_)
BlendSum(sigs) ==
    IF sigs = {} THEN 0
    ELSE LET i == CHOOSE j \in sigs : TRUE
         IN  calc.arg[i] * BlendWeights[i] + BlendSum(sigs \ {i})

RECURSIVE WeightSum(_)
WeightSum(sigs) ==
    IF sigs = {} THEN 0
    ELSE LET i == CHOOSE j \in sigs : TRUE
         IN  BlendWeights[i] + WeightSum(sigs \ {i})

\* C20: regional blend renormalisation: the composite is
\* sum(s_i * w_i) / sum(w_i) over exactly the signals that are not missing (to
\* the nearest tenth of a point), so that the weights in effect sum to 1: the
\* composite of signals that all have the same score is that score, and it is
\* never outside the range of the signals; with all three missing it is 50.0.
C20_BlendRenormalised ==
    Blended =>
        IF PresentSignals = {}
          THEN calc.ret = 500
          ELSE /\ 2 * WeightSum(PresentSignals) * calc.ret \in
                     (2 * BlendSum(PresentSignals) - WeightSum(PresentSignals) + 1)
                       ..(2 * BlendSum(PresentSignals) + WeightSum(PresentSignals))
               /\ \E j, k \in PresentSignals :
                     calc.arg[j] <= calc.ret /\ calc.ret <= calc.arg[k]

\* C20 witness: the markets signal is missing and the two others differ: the
\* composite is their blend with weights 0.6 and 0.4.
C20_Witness ==
    /\ Blended
    /\ calc.arg = <<577, None, 423>>
    /\ calc.ret = 515

\* An entry of calculate_regional_composites has been built.
Entered == calc.fn = "calculate_regional_composites" /\ calc.ret # NoEntry

\* C21: missing scored signals are dropped in the pipeline: the composite of a
\* region is the blend of exactly those of Polymarket, markets and panic search
\* that have a published value for the region, with the remaining weights
\* renormalised to sum 1, and it is 50.0 when none has.
C21_MissingSignalsDropped ==
    Entered =>
        calc.ret.composite = calculate_regional_composite(calc.pm, calc.mkt, calc.gt_panic)

\* A call of calculate_dynamic_global_score has returned.
GlobalScored == calc.fn = "calculate_dynamic_global_score" /\ calc.ret # NoGlobal

\* The entry of a region with other GDELT, global-search and Cloudflare values.
WithContext(entry, v) ==
    [entry EXCEPT !.signals.gdelt = v, !.signals.gt_global = v, !.signals.cloudflare = v]

\* C22: context-only signals do not enter scoring: whatever the GDELT,
\* global-search and Cloudflare values of a region are replaced with, its
\* composite and its convergence label are the same, and whatever the context
\* values carried by the regional entries are replaced with, the global
\* composite and the regional weights are the same.
C22_ContextOnlyExcluded ==
    /\ Entered =>
          \A gdelt, gt_global, cloudflare \in {None, 1, 999} :
             LET other == calculate_regional_composites(calc.pm, calc.mkt, gdelt,
                                                        calc.gt_panic, gt_global, cloudflare)
             IN  /\ other.composite = calc.ret.composite
                 /\ other.convergence_label = calc.ret.convergence_label
    /\ GlobalScored =>
          \A context \in [DOMAIN calc.regional_composites -> {1, 999}] :
             LET other == [r \in DOMAIN calc.regional_composites |->
                              WithContext(calc.regional_composites[r], context[r])]
             IN  /\ calculate_dynamic_global_score(other, calc.global_pm_score)
                      = calculate_dynamic_global_score(calc.regional_composites,
                                                       calc.global_pm_score)
                 /\ calc.ret \in calculate_dynamic_global_score(other, calc.global_pm_score)

\* C22 witness: the entry of a region whose three context signals are elevated
\* and whose scored signals are depressed has been built: the composite and
\* the label are those of the scored signals.
C22_Witness ==
    /\ Entered
    /\ calc.gdelt = 731 /\ calc.gt_global = 731 /\ calc.cloudflare = 731
    /\ calc.pm = 269 /\ calc.mkt = 346 /\ calc.gt_panic = 423
    /\ calc.ret.signals.gdelt = 731
    /\ calc.ret.composite < 420
    /\ calc.ret.convergence_label = "Calming"

\* The composites of the regions of a call of calculate_dynamic_global_score.
RegionScores ==
    [r \in DOMAIN calc.regional_composites |-> calc.regional_composites[r].composite]

\* The global Polymarket score of the call; 50.0 stands for None.
GlobalPm == IF calc.global_pm_score # None THEN calc.global_pm_score ELSE 500

EqualRegions ==
    /\ GlobalScored
    /\ DOMAIN calc.regional_composites = Regions
    /\ \A r1, r2 \in Regions : RegionScores[r1] = RegionScores[r2]

\* C24: equal regions: for three regions with equal composite scores the
\* amplification of each region is 1.0, each final weight is 1/3 and the score
\* is that of the simple mean of the three composites.
C24_EqualRegionsUnamplified ==
    EqualRegions =>
        \A r \in Regions :
           /\ Amp(RegionScores[r]) = 1000
           /\ calc.ret.weights[r] = 333
           /\ 100 * calc.ret.score \in
                 (85 * RegionScores[r] + 15 * GlobalPm - 50)
                   ..(85 * RegionScores[r] + 15 * GlobalPm + 50)

\* C24 amended: equal regions: for three regions with equal composite scores
\* each final weight is 1/3 and the score is that of the simple mean of the
\* three composites; the amplification is the same for the three, and it is
\* 1.0 exactly when the common score lies from 42 to 58.
C24_EqualRegionsMean ==
    EqualRegions =>
        \A r \in Regions :
           /\ Amp(RegionScores[r]) = 1000 <=> RegionScores[r] \in 420..580
           /\ calc.ret.weights[r] = 333
           /\ 100 * calc.ret.score \in
                 (85 * RegionScores[r] + 15 * GlobalPm - 50)
                   ..(85 * RegionScores[r] + 15 * GlobalPm + 50)

\* C24 witness: three regions at 73.1 have been aggregated: each is amplified
\* by 1.302 and weighs 1/3.
C24_Witness ==
    /\ EqualRegions
    /\ \A r \in Regions : RegionScores[r] = 731 /\ Amp(RegionScores[r]) = 1302
    /\ \A r \in Regions : calc.ret.weights[r] = 333
    /\ calc.global_pm_score = 654
    /\ calc.ret.score = 719

\* C25: composite range: every regional composite and every global composite
\* computed is a number from 0.0 to 100.0, whichever of the signals are
\* present, missing or crude.
C25_CompositeRange ==
    /\ Entered => calc.ret.composite \in 0..1000
    /\ GlobalScored => calc.ret.score \in 0..1000

\* C25 witness: a region without a panic-search value whose Polymarket score
\* is the crude 100.0 and whose markets score is 100.0 has the composite 100.0.
C25_Witness ==
    /\ Entered
    /\ calc.pm = 1000 /\ calc.mkt = 1000 /\ calc.gt_panic = None
    /\ calc.ret.composite = 1000

\* A call of get_risk_level has returned.
Levelled == calc.fn = "get_risk_level" /\ calc.ret # NoLevel

\* The seven levels in ascending order and the lower limit of all but the first.
RiskLevels ==
    <<"UNUSUALLY CALM", "CALM", "BELOW NORMAL", "NORMAL", "ELEVATED", "HIGH", "CRITICAL">>
LevelLimits == <<150, 300, 420, 580, 700, 850>>

\* The place of a level in RiskLevels (0 when it is none of them).
LevelRank(level) ==
    IF \E i \in 1..Len(RiskLevels) : RiskLevels[i] = level
      THEN CHOOSE i \in 1..Len(RiskLevels) : RiskLevels[i] = level
      ELSE 0

\* C26: risk-level buckets: the level of a score s is the one of the seven
\* whose lower-inclusive limits 15, 30, 42, 58, 70, 85 s has reached (none:
\* UNUSUALLY CALM, all six: CRITICAL), the level of a smaller score is never
\* higher, and the colour returned is get_score_colour(s).
C26_RiskLevelBuckets ==
    Levelled =>
        /\ LevelRank(calc.ret.level) =
              1 + Cardinality({i \in 1..Len(LevelLimits) : calc.arg >= LevelLimits[i]})
        /\ \A s \in 0..calc.arg :
              LevelRank(get_risk_level(s).level) <= LevelRank(calc.ret.level)
        /\ calc.ret.colour = get_score_colour(calc.arg)

\* C26 witness: the call for 58.0 has returned ELEVATED, one level above the
\* NORMAL of 57.9.
C26_Witness ==
    /\ Levelled
    /\ calc.arg = 580
    /\ calc.ret.level = "ELEVATED"
    /\ get_risk_level(579).level = "NORMAL"

\* A call of get_convergence_status has returned.
Converged == calc.fn = "get_convergence_status" /\ calc.ret # NoStatus

\* The signals of the call that are not missing, and those of them that are
\* elevated (>= 58) and depressed (<= 42).
ActiveSignals == {i \in DOMAIN calc.scores : calc.scores[i] # None}
ElevatedSignals == {i \in ActiveSignals : calc.scores[i] >= 580}
DepressedSignals == {i \in ActiveSignals : calc.scores[i] <= 420}

\* The decision table: the label of the first row that applies, "none" when
\* no row does.
TableLabel(active, ne, nd) ==
    IF active = 0 THEN "No Data"
    ELSE IF ne = 0 /\ nd = 0 THEN "Quiet"
    ELSE IF ne >= 3 THEN "Broad Escalation"
    ELSE IF nd >= 3 THEN "Broad De-escalation"
    ELSE IF ne >= 2 /\ nd = 0 THEN "Confirming"
    ELSE IF nd >= 2 /\ ne = 0 THEN "Calming"
    ELSE IF ne >= 1 /\ nd >= 1 THEN "Mixed Signals"
    ELSE IF ne = 1 THEN "Early Signal"
    ELSE IF nd = 1 THEN "Early Calm"
    ELSE "none"

\* C27: convergence decision table: the label returned is that of the first
\* row of the table that applies to the number of elevated and the number of
\* depressed signals among those not missing (No Data when all are missing),
\* and some row always applies.
C27_ConvergenceTable ==
    Converged =>
        /\ calc.ret.label = TableLabel(Cardinality(ActiveSignals),
                                       Cardinality(ElevatedSignals),
                                       Cardinality(DepressedSignals))
        /\ calc.ret.label # "none"

\* C27 witness: three signals at 58.0 and three at 42.0 have been labelled
\* Broad Escalation, the earlier row.
C27_Witness ==
    /\ Converged
    /\ Cardinality({i \in ActiveSignals : calc.scores[i] = 580}) = 3
    /\ Cardinality({i \in ActiveSignals : calc.scores[i] = 420}) = 3
    /\ calc.ret.label = "Broad Escalation"

\* The positions of a source loop and of a refresher between the setting of
\* the guard flag and the end of the finally clause.
InFetchCycle(s) == src_pc[s] \in {"fetch", "got", "stamp", "finally"}

\* C28: guard release: a 'fetching' or 'updating' flag that is set is always
\* cleared later (each flag is clear again and again), whether the cycle
\* completes, rejects its payload or raises, and a flag is set only while a
\* cycle that set it is in progress: none stays set after its cycle has ended.
C28_GuardRelease ==
    /\ \A s \in Sources : []<>(~StateOf(s).fetching)
    /\ []<>(~dashboard_state.updating)
    /\ [](\A s \in Sources : StateOf(s).fetching => InFetchCycle(s))
    /\ [](dashboard_state.updating => \E w \in Refreshers : InBody(w))

\* C28 witness: the Google Trends loop holds its flag at the finally clause of
\* a cycle that has rejected the fetched payload (fewer than half the terms of
\* the published one).
C28_Witness ==
    /\ src_pc["gtrends"] = "finally"
    /\ gtrends_state.fetching
    /\ raw["gtrends"].kind = "data"
    /\ gtrends_state.regional.present
    /\ ~Accepts("gtrends", raw["gtrends"])

\* The thread t of LaunchOrder has been started.
Started(t) == IF t = "keepalive" THEN pc[Keepalive] # "off" ELSE src_pc[t] # "off"

\* C29: staggered single start: however many times start_background_threads
\* is called, the background loops are launched one at a time in the order
\* Cloudflare, GDELT, Google Trends, keepalive: a loop runs exactly when the
\* launch has reached it, every launch starts one loop that was not running,
\* after start_background_threads has set its flag, and none is launched again.
C29_StaggeredSingleStart ==
    /\ [](/\ launched \in 0..Len(LaunchOrder)
          /\ \A i \in 1..Len(LaunchOrder) : Started(LaunchOrder[i]) <=> i <= launched)
    /\ [][ launched' # launched =>
              /\ threads_started
              /\ launched' = launched + 1
              /\ \A i \in 1..Len(LaunchOrder) :
                    i = launched + 1 =>
                       ~Started(LaunchOrder[i]) /\ Started(LaunchOrder[i])' ]_vars

\* C29 witness: the launch is half way: Cloudflare and GDELT run (the GDELT
\* loop is in a cycle), Google Trends and keepalive do not yet.
C29_Witness ==
    /\ threads_started
    /\ launched = 2
    /\ src_pc["cloudflare"] # "off"
    /\ src_pc["gdelt"] = "fetch"
    /\ src_pc["gtrends"] = "off"
    /\ pc[Keepalive] = "off"

\* C30: payload before timestamp: whenever last_updated of the dashboard state
\* is positive its 'scores' are present and its 'html' is not None, and
\* whenever last_updated of a source state is positive its 'regional' is not
\* empty.
C30_PayloadBeforeTimestamp ==
    /\ dashboard_state.last_updated > 0 =>
          dashboard_state.scores # NoScores /\ dashboard_state.html # NoHtml
    /\ \A s \in Sources :
          StateOf(s).last_updated > 0 => StateOf(s).regional.present

\* C30 witness: the dashboard has been stamped, and the GDELT loop has
\* published its first payload and not yet written its time stamp.
C30_Witness ==
    /\ dashboard_state.last_updated > 0
    /\ dashboard_state.html > 0
    /\ src_pc["gdelt"] = "stamp"
    /\ gdelt_state.regional.present
    /\ gdelt_state.last_updated = 0
    /\ cloudflare_state.last_updated > 0

====
